---- MODULE Spec2Model ----
(***************************************************************************)
(* Model of app.py, the Eurapo FCU price filler: the key normalizers       *)
(* (norm_model, norm_rows), the column matcher (_find_column), the         *)
(* pricelist index builder (load_pricelist), the row pricer                *)
(* (price_input_df) and the script flow that loads the pricelist once and  *)
(* then serves pricing requests.                                           *)
(*                                                                         *)
(* Python values are tagged records so that values of different Python     *)
(* types can be compared: a str is [s |-> <<characters>>], a float is      *)
(* [n |-> number], the float NaN of an empty spreadsheet cell is           *)
(* [nan |-> TRUE], None is [none |-> TRUE] and a tuple is [t |-> <<items>>]. *)
(***************************************************************************)
EXTENDS FiniteSets, Integers, Sequences, TLC

VARIABLES pc, sheet, pl_df, pl_i, lookup, dupes, error,
          in_df, df, pos, base_out, rowp_out, total_out, status,
          out_df, excel_bytes, nx, n1, n2

vars == <<pc, sheet, pl_df, pl_i, lookup, dupes, error,
          in_df, df, pos, base_out, rowp_out, total_out, status,
          out_df, excel_bytes, nx, n1, n2>>

appvars == <<pc, sheet, pl_df, pl_i, lookup, dupes, error,
             in_df, df, pos, base_out, rowp_out, total_out, status,
             out_df, excel_bytes>>

normvars == <<nx, n1, n2>>

-----------------------------------------------------------------------------
(* Bounds of the model. *)

MaxPLRows == 2

MaxInRows == 1

MaxLen == 4

-----------------------------------------------------------------------------
(* Python values. *)

Str(chars) == [s |-> chars]

Num(v) == [n |-> v]

NaN == [nan |-> TRUE]

None == [none |-> TRUE]

Tup(items) == [t |-> items]

IsNum(x) == DOMAIN x = {"n"}

\* pd.isna / pd.notna of a scalar cell: None and NaN are both missing
isna(x) == x = None \/ x = NaN

notna(x) == ~isna(x)

-----------------------------------------------------------------------------
(* Characters and the str methods the program uses. *)

\* the cased letters and their counterparts
UpperOf ==
    ("a" :> "A") @@ ("b" :> "B") @@ ("c" :> "C") @@ ("d" :> "D") @@ ("e" :> "E") @@
    ("f" :> "F") @@ ("g" :> "G") @@ ("h" :> "H") @@ ("i" :> "I") @@ ("j" :> "J") @@
    ("k" :> "K") @@ ("l" :> "L") @@ ("m" :> "M") @@ ("n" :> "N") @@ ("o" :> "O") @@
    ("p" :> "P") @@ ("q" :> "Q") @@ ("r" :> "R") @@ ("s" :> "S") @@ ("t" :> "T") @@
    ("u" :> "U") @@ ("v" :> "V") @@ ("w" :> "W") @@ ("x" :> "X") @@ ("y" :> "Y") @@
    ("z" :> "Z")

LowerOf ==
    ("A" :> "a") @@ ("B" :> "b") @@ ("C" :> "c") @@ ("D" :> "d") @@ ("E" :> "e") @@
    ("F" :> "f") @@ ("G" :> "g") @@ ("H" :> "h") @@ ("I" :> "i") @@ ("J" :> "j") @@
    ("K" :> "k") @@ ("L" :> "l") @@ ("M" :> "m") @@ ("N" :> "n") @@ ("O" :> "o") @@
    ("P" :> "p") @@ ("Q" :> "q") @@ ("R" :> "r") @@ ("S" :> "s") @@ ("T" :> "t") @@
    ("U" :> "u") @@ ("V" :> "v") @@ ("W" :> "w") @@ ("X" :> "x") @@ ("Y" :> "y") @@
    ("Z" :> "z")

\* the characters matched by \s and removed by str.strip()
Whitespace == {" ", "\t"}

UpperChar(c) == IF c \in DOMAIN UpperOf THEN UpperOf[c] ELSE c

LowerChar(c) == IF c \in DOMAIN LowerOf THEN LowerOf[c] ELSE c

\* the function f on 1..n as a sequence of n items
AsList(f) == <<>> \o f

\* str.upper()
upper(x) == Str(AsList([i \in 1..Len(x.s) |-> UpperChar(x.s[i])]))

\* str.lower()
lower(x) == Str(AsList([i \in 1..Len(x.s) |-> LowerChar(x.s[i])]))

RECURSIVE LStripChars(_)
LStripChars(cs) ==
    IF cs = <<>> THEN <<>>
    ELSE IF Head(cs) \in Whitespace THEN LStripChars(Tail(cs))
    ELSE cs

RECURSIVE RStripChars(_)
RStripChars(cs) ==
    IF cs = <<>> THEN <<>>
    ELSE IF cs[Len(cs)] \in Whitespace
         THEN RStripChars(SubSeq(cs, 1, Len(cs) - 1))
    ELSE cs

\* str.strip()
strip(x) == Str(RStripChars(LStripChars(x.s)))

\* str.replace(old, new) for single characters
replace(x, old, new) ==
    Str(AsList([i \in 1..Len(x.s) |-> IF x.s[i] = old THEN new ELSE x.s[i]]))

RECURSIVE SubWsChars(_, _)
SubWsChars(repl, cs) ==
    IF cs = <<>> THEN <<>>
    ELSE IF Head(cs) \in Whitespace
         THEN repl \o SubWsChars(repl, LStripChars(cs))
    ELSE <<Head(cs)>> \o SubWsChars(repl, Tail(cs))

\* re.sub(r"\s+", repl, x): every maximal run of whitespace becomes repl
re_sub_ws(repl, x) == Str(SubWsChars(repl, x.s))

\* str(x) of a cell that holds text
str(x) == x

-----------------------------------------------------------------------------
(* Helpers (app.py, lines 34-69). *)

\* norm_model without the replacement of '-'
norm_model_KeepHyphen(x) ==
    IF x = None \/ x = NaN THEN Str(<<>>)
    ELSE LET s0 == upper(strip(str(x)))
         IN  strip(re_sub_ws(<<" ">>, s0))

\* norm_model collapsing the whitespace before, not after, replacing '-'
norm_model_CollapseFirst(x) ==
    IF x = None \/ x = NaN THEN Str(<<>>)
    ELSE LET s0 == re_sub_ws(<<" ">>, upper(strip(str(x))))
         IN  strip(replace(s0, "-", " "))

norm_model(x) ==
    IF x = None \/ x = NaN THEN Str(<<>>)
    ELSE LET s0 == upper(strip(str(x)))
             s1 == replace(s0, "-", " ")
         IN  strip(re_sub_ws(<<" ">>, s1))

norm_rows(x) ==
    IF x = None \/ x = NaN THEN Str(<<>>)
    ELSE LET s0 == upper(strip(str(x)))
         IN  re_sub_ws(<<>>, s0)

\* the comparison form of a column name in _find_column
ColumnFold(c) == re_sub_ws(<<" ">>, lower(strip(c)))

\* a data frame is [columns |-> sequence of names, rows |-> sequence of
\* rows], each row a sequence of cells aligned with the columns
_find_column(frame, wanted) ==
    LET w == ColumnFold(wanted)
        hits == {i \in 1..Len(frame.columns) : ColumnFold(frame.columns[i]) = w}
    IN  IF hits = {} THEN None
        ELSE frame.columns[CHOOSE i \in hits : \A k \in hits : i <= k]

-----------------------------------------------------------------------------
(* Configuration (app.py, lines 12-28). *)

PL_MODEL_COL == Str(<<"M", "o", "d", "e", "l">>)

PL_ROWS_COL ==
    Str(<<"C", "o", "o", "l", "i", "n", "g", " ", "R", "o", "w", "s", " ",
          "+", " ", "H", "e", "a", "t", "i", "n", "g", " ", "R", "o", "w">>)

PL_BASE_COL == Str(<<"B", "a", "s", "e", " ", "P", "r", "i", "c", "e">>)

PL_ROWPRICE_COL == Str(<<"R", "o", "w", " ", "P", "r", "i", "c", "e">>)

IN_MODEL_COL == Str(<<"M", "o", "d", "e", "l">>)

IN_ROWS_COL ==
    Str(<<"C", "o", "o", "l", "i", "n", "g", " ", "R", "o", "w", "s", " ",
          "+", " ", "H", "e", "a", "t", "i", "n", "g", " ", "R", "o", "w">>)

OUT_BASE_COL == Str(<<"B", "a", "s", "e", " ", "P", "r", "i", "c", "e">>)

OUT_ROWPRICE_COL == Str(<<"R", "o", "w", " ", "P", "r", "i", "c", "e">>)

OUT_TOTAL_COL == Str(<<"T", "o", "t", "a", "l", " ", "P", "r", "i", "c", "e">>)

OUT_STATUS_COL ==
    Str(<<"M", "a", "t", "c", "h", " ", "S", "t", "a", "t", "u", "s">>)

\* the working columns of load_pricelist and price_input_df
PL_MODEL_NORM == Str(<<"m", "o", "d", "e", "l", "_", "n", "o", "r", "m">>)

PL_ROWS_NORM == Str(<<"r", "o", "w", "s", "_", "n", "o", "r", "m">>)

IN_MODEL_NORM == Str(<<"_", "m", "o", "d", "e", "l", "_", "n", "o", "r", "m">>)

IN_ROWS_NORM == Str(<<"_", "r", "o", "w", "s", "_", "n", "o", "r", "m">>)

\* the values of Match Status
STATUS_OK == Str(<<"O", "K">>)

STATUS_NOT_FOUND == Str(<<"N", "O", "T", "_", "F", "O", "U", "N", "D">>)

STATUS_INCOMPLETE ==
    Str(<<"I", "N", "C", "O", "M", "P", "L", "E", "T", "E", "_",
          "P", "R", "I", "C", "E">>)

-----------------------------------------------------------------------------
(* The pandas operations the program uses. *)

Range(seq) == {seq[i] : i \in 1..Len(seq)}

ColPos(frame, c) ==
    CHOOSE i \in 1..Len(frame.columns) :
        /\ frame.columns[i] = c
        /\ \A k \in 1..Len(frame.columns) : frame.columns[k] = c => i <= k

\* frame[c]
GetColumn(frame, c) ==
    AsList([r \in 1..Len(frame.rows) |-> frame.rows[r][ColPos(frame, c)]])

\* frame[c] = vals: an existing column is overwritten in place, a new one
\* is appended as the last column
SetColumn(frame, c, vals) ==
    IF c \in Range(frame.columns)
    THEN [frame EXCEPT !.rows =
            AsList([r \in 1..Len(frame.rows) |->
                      [frame.rows[r] EXCEPT ![ColPos(frame, c)] = vals[r]]])]
    ELSE [columns |-> Append(frame.columns, c),
          rows |-> AsList([r \in 1..Len(frame.rows) |->
                             Append(frame.rows[r], vals[r])])]

\* frame.drop(columns=names, errors="ignore")
DropColumns(frame, names) ==
    LET kept == SelectSeq(frame.columns, LAMBDA c : c \notin names)
    IN  [columns |-> kept,
         rows |-> AsList([r \in 1..Len(frame.rows) |->
                            AsList([k \in 1..Len(kept) |->
                                      frame.rows[r][ColPos(frame, kept[k])]])])]

\* dict.get(key)
DictGet(d, key) == IF key \in DOMAIN d THEN d[key] ELSE None

\* d[key] = val
DictSet(d, key, val) ==
    [k \in DOMAIN d \cup {key} |-> IF k = key THEN val ELSE d[k]]

EmptyDict == [k \in {} |-> None]

-----------------------------------------------------------------------------
(* The workbooks the program is run on.  A workbook is                      *)
(* [exists |-> BOOLEAN, sheets |-> sequence of [name, frame]].              *)

Seqs(S, n) == UNION {[1..k -> S] : k \in 0..n}

X == Str(<<"x">>)

QTY_COL == Str(<<"Q", "t", "y">>)

SHEET_NOTES == Str(<<"N", "o", "t", "e", "s">>)

SHEET_PRICES == Str(<<"P", "r", "i", "c", "e", "s">>)

PLModelCells == {Str(<<"A", "B", "C">>), Str(<<"A", "-", "b">>)}

PLRowsCells == {Str(<<"2", "+", "1", "R">>)}

PLBaseCells == {NaN, Num(100)}

PLRowPriceCells == {NaN, Num(50)}

\* a pricelist line: model, rows, base price, row price
PLLines == PLModelCells \X PLRowsCells \X PLBaseCells \X PLRowPriceCells

NotesSheet ==
    [name |-> SHEET_NOTES,
     frame |-> [columns |-> <<PL_MODEL_COL, QTY_COL>>, rows |-> <<>>]]

\* the price sheet: the columns under differently written names, in an
\* order of their own
VariantSheet(lines) ==
    [name |-> SHEET_PRICES,
     frame |-> [columns |->
                  <<Str(<<"b", "a", "s", "e", " ", "p", "r", "i", "c", "e">>),
                    Str(<<" ", "M", "O", "D", "E", "L">>),
                    Str(<<"R", "O", "W", " ", " ", "P", "R", "I", "C", "E">>),
                    Str(<<"c", "o", "o", "l", "i", "n", "g", "\t", "r", "o", "w", "s",
                          " ", "+", " ", "h", "e", "a", "t", "i", "n", "g", " ",
                          "R", "O", "W", " ">>)>>,
                rows |-> AsList([r \in 1..Len(lines) |->
                            <<lines[r][3], lines[r][1], lines[r][4], lines[r][2]>>])]]

Workbooks ==
    {[exists |-> FALSE, sheets |-> <<>>],
     [exists |-> TRUE, sheets |-> <<NotesSheet>>]}
    \cup {[exists |-> TRUE, sheets |-> <<NotesSheet, VariantSheet(lines)>>] :
            lines \in Seqs(PLLines, MaxPLRows)}

INModelCells == {Str(<<"a", "b", "c", "-">>), Str(<<" ", "a", " ", " ", "B">>)}

INRowsCells == {Str(<<" ", "2", " ", "+", "1", "r">>), Str(<<"3", "R">>)}

INLines == INModelCells \X INRowsCells

InputLayouts == 1..6

InputColumns(layout) ==
    CASE layout = 1 -> <<IN_MODEL_COL, IN_ROWS_COL, QTY_COL>>
      [] layout = 2 ->
            <<QTY_COL,
              Str(<<"c", "o", "o", "l", "i", "n", "g", " ", " ", "r", "o", "w", "s",
                    " ", "+", " ", "h", "e", "a", "t", "i", "n", "g", " ",
                    "R", "O", "W", " ">>),
              Str(<<" ", "M", "O", "D", "E", "L">>)>>
      [] layout = 3 -> <<IN_MODEL_COL, QTY_COL>>
      [] layout = 4 -> <<QTY_COL, IN_ROWS_COL>>
      [] layout = 5 -> <<QTY_COL>>
      [] layout = 6 -> <<IN_MODEL_NORM, IN_MODEL_COL, OUT_BASE_COL, IN_ROWS_COL>>

InputRow(layout, line) ==
    CASE layout = 1 -> <<line[1], line[2], X>>
      [] layout = 2 -> <<X, line[2], line[1]>>
      [] layout = 3 -> <<line[1], X>>
      [] layout = 4 -> <<X, line[2]>>
      [] layout = 5 -> <<X>>
      [] layout = 6 -> <<X, line[1], X, line[2]>>

\* the uploaded tables, as pd.read_excel returns them
InputFrames ==
    {[columns |-> InputColumns(layout),
      rows |-> AsList([r \in 1..Len(lines) |-> InputRow(layout, lines[r])])] :
        layout \in InputLayouts, lines \in Seqs(INLines, MaxInRows)}

-----------------------------------------------------------------------------
(* load_pricelist (app.py, lines 72-121) and its call (lines 199-213). *)

required == {PL_MODEL_COL, PL_ROWS_COL, PL_BASE_COL, PL_ROWPRICE_COL}

\* lines 84-90: the first sheet, in workbook order, that has every
\* required column; None when there is none
chosen_sheet(wb) ==
    LET ok == {i \in 1..Len(wb.sheets) :
                 \A col \in required : _find_column(wb.sheets[i].frame, col) # None}
    IN  IF ok = {} THEN None
        ELSE wb.sheets[CHOOSE i \in ok : \A k \in ok : i <= k]

\* float(x) of a numeric cell
float(x) == Num(x.n)

\* lines 113-115 for the row at position r of the pricelist frame
PLKey(frame, r) ==
    Tup(<<GetColumn(frame, PL_MODEL_NORM)[r], GetColumn(frame, PL_ROWS_NORM)[r]>>)

PLPrices(frame, r) ==
    LET c_base == _find_column(frame, PL_BASE_COL)
        c_rowp == _find_column(frame, PL_ROWPRICE_COL)
        base == IF notna(GetColumn(frame, c_base)[r])
                THEN float(GetColumn(frame, c_base)[r]) ELSE None
        rowp == IF notna(GetColumn(frame, c_rowp)[r])
                THEN float(GetColumn(frame, c_rowp)[r]) ELSE None
    IN  Tup(<<base, rowp>>)

\* LoadNotFound without st.stop()
LoadNotFound_GoOn ==
    /\ pc = "start"
    /\ \E wb \in Workbooks : ~wb.exists
    /\ error' = [type |-> "FileNotFoundError"]
    /\ pc' = "ready"
    /\ UNCHANGED <<sheet, pl_df, pl_i, lookup, dupes, in_df, df, pos, base_out,
                   rowp_out, total_out, status, out_df, excel_bytes>>

\* lines 78-79
LoadNotFound ==
    /\ pc = "start"
    /\ \E wb \in Workbooks : ~wb.exists
    /\ error' = [type |-> "FileNotFoundError"]
    /\ pc' = "load_failed"
    /\ UNCHANGED <<sheet, pl_df, pl_i, lookup, dupes, in_df, df, pos, base_out,
                   rowp_out, total_out, status, out_df, excel_bytes>>

\* lines 81-96
LoadNoSheet ==
    /\ pc = "start"
    /\ \E wb \in Workbooks :
          /\ wb.exists
          /\ chosen_sheet(wb) = None
          /\ error' = [type |-> "ValueError", required |-> required,
                       sheets |-> AsList([i \in 1..Len(wb.sheets) |-> wb.sheets[i].name])]
    /\ pc' = "load_failed"
    /\ UNCHANGED <<sheet, pl_df, pl_i, lookup, dupes, in_df, df, pos, base_out,
                   rowp_out, total_out, status, out_df, excel_bytes>>

\* lines 81-110
LoadBegin ==
    /\ pc = "start"
    /\ \E wb \in Workbooks :
          /\ wb.exists
          /\ chosen_sheet(wb) # None
          /\ LET read == chosen_sheet(wb).frame
                 c_model == _find_column(read, PL_MODEL_COL)
                 c_rows == _find_column(read, PL_ROWS_COL)
                 d1 == SetColumn(read, PL_MODEL_NORM,
                         AsList([r \in 1..Len(read.rows) |->
                                   norm_model(GetColumn(read, c_model)[r])]))
                 d2 == SetColumn(d1, PL_ROWS_NORM,
                         AsList([r \in 1..Len(d1.rows) |->
                                   norm_rows(GetColumn(d1, c_rows)[r])]))
             IN  /\ sheet' = chosen_sheet(wb).name
                 /\ pl_df' = d2
    /\ lookup' = EmptyDict
    /\ dupes' = <<>>
    /\ pl_i' = 1
    /\ pc' = "loading"
    /\ UNCHANGED <<error, in_df, df, pos, base_out, rowp_out, total_out, status,
                   out_df, excel_bytes>>

\* LoadRow keeping the first value of a key
LoadRow_FirstWins ==
    /\ pc = "loading"
    /\ pl_i <= Len(pl_df.rows)
    /\ LET key == PLKey(pl_df, pl_i)
           val == PLPrices(pl_df, pl_i)
       IN  /\ dupes' = IF key \in DOMAIN lookup /\ lookup[key] # val
                       THEN Append(dupes, Tup(<<key, lookup[key], val>>))
                       ELSE dupes
           /\ lookup' = IF key \in DOMAIN lookup THEN lookup
                        ELSE DictSet(lookup, key, val)
    /\ pl_i' = pl_i + 1
    /\ UNCHANGED <<pc, sheet, pl_df, error, in_df, df, pos, base_out, rowp_out,
                   total_out, status, out_df, excel_bytes>>

\* LoadRow recording every repeated key
LoadRow_EveryRepeat ==
    /\ pc = "loading"
    /\ pl_i <= Len(pl_df.rows)
    /\ LET key == PLKey(pl_df, pl_i)
           val == PLPrices(pl_df, pl_i)
       IN  /\ dupes' = IF key \in DOMAIN lookup
                       THEN Append(dupes, Tup(<<key, lookup[key], val>>))
                       ELSE dupes
           /\ lookup' = DictSet(lookup, key, val)
    /\ pl_i' = pl_i + 1
    /\ UNCHANGED <<pc, sheet, pl_df, error, in_df, df, pos, base_out, rowp_out,
                   total_out, status, out_df, excel_bytes>>

\* lines 112-119: one iteration of the loop over the sheet's rows
LoadRow ==
    /\ pc = "loading"
    /\ pl_i <= Len(pl_df.rows)
    /\ LET key == PLKey(pl_df, pl_i)
           val == PLPrices(pl_df, pl_i)
       IN  /\ dupes' = IF key \in DOMAIN lookup /\ lookup[key] # val
                       THEN Append(dupes, Tup(<<key, lookup[key], val>>))
                       ELSE dupes
           /\ lookup' = DictSet(lookup, key, val)
    /\ pl_i' = pl_i + 1
    /\ UNCHANGED <<pc, sheet, pl_df, error, in_df, df, pos, base_out, rowp_out,
                   total_out, status, out_df, excel_bytes>>

\* line 121 and lines 201-215: the index is returned and the page waits
\* for an upload
LoadReturn ==
    /\ pc = "loading"
    /\ pl_i > Len(pl_df.rows)
    /\ pc' = "ready"
    /\ UNCHANGED <<sheet, pl_df, pl_i, lookup, dupes, error, in_df, df, pos,
                   base_out, rowp_out, total_out, status, out_df, excel_bytes>>

-----------------------------------------------------------------------------
(* price_input_df (app.py, lines 124-175) and its call (lines 215-270). *)

\* missing with "elif" for the second test
missing_FirstOnly(frame) ==
    IF _find_column(frame, IN_MODEL_COL) = None THEN <<IN_MODEL_COL>>
    ELSE IF _find_column(frame, IN_ROWS_COL) = None THEN <<IN_ROWS_COL>>
    ELSE <<>>

\* lines 135-139: the required columns the table lacks, Model first
missing(frame) ==
    (IF _find_column(frame, IN_MODEL_COL) = None THEN <<IN_MODEL_COL>> ELSE <<>>)
    \o (IF _find_column(frame, IN_ROWS_COL) = None THEN <<IN_ROWS_COL>> ELSE <<>>)

\* PriceOne without the test for an entry of two absent prices
PriceOne_NoBlankTest(d, m, r) ==
    LET val == DictGet(d, Tup(<<m, r>>))
    IN  IF val = None
        THEN <<None, None, None, STATUS_NOT_FOUND>>
        ELSE LET base == val.t[1]
                 rowp == val.t[2]
             IN  IF base = None \/ rowp = None
                 THEN <<base, rowp, None, STATUS_INCOMPLETE>>
                 ELSE <<base, rowp, Num(base.n + rowp.n), STATUS_OK>>

\* PriceOne giving an incomplete entry the price it has as its total
PriceOne_PartialTotal(d, m, r) ==
    LET val == DictGet(d, Tup(<<m, r>>))
    IN  IF val = None \/ val = Tup(<<None, None>>)
        THEN <<None, None, None, STATUS_NOT_FOUND>>
        ELSE LET base == val.t[1]
                 rowp == val.t[2]
             IN  IF base = None \/ rowp = None
                 THEN <<base, rowp, IF base = None THEN rowp ELSE base,
                        STATUS_INCOMPLETE>>
                 ELSE <<base, rowp, Num(base.n + rowp.n), STATUS_OK>>

\* lines 152-167: the base price, row price, total price and status of the
\* row whose normalized model and rows are m and r
PriceOne(d, m, r) ==
    LET val == DictGet(d, Tup(<<m, r>>))
    IN  IF val = None \/ val = Tup(<<None, None>>)
        THEN <<None, None, None, STATUS_NOT_FOUND>>
        ELSE LET base == val.t[1]
                 rowp == val.t[2]
             IN  IF base = None \/ rowp = None
                 THEN <<base, rowp, None, STATUS_INCOMPLETE>>
                 ELSE <<base, rowp, Num(base.n + rowp.n), STATUS_OK>>

\* to_excel_bytes (lines 178-184): one sheet, no index column
to_excel_bytes(frame, sheet_name) == [sheet_name |-> sheet_name, frame |-> frame]

\* lines 219-223: the upload is not a readable workbook
UploadUnreadable ==
    /\ pc = "ready"
    /\ error' = [type |-> "UnreadableWorkbook"]
    /\ pc' = "request_failed"
    /\ UNCHANGED <<sheet, pl_df, pl_i, lookup, dupes, in_df, df, pos, base_out,
                   rowp_out, total_out, status, out_df, excel_bytes>>

\* lines 146-147: the table with its two working columns
WithNormColumns(input) ==
    LET c_model == _find_column(input, IN_MODEL_COL)
        c_rows == _find_column(input, IN_ROWS_COL)
        d1 == SetColumn(input, IN_MODEL_NORM,
                AsList([r \in 1..Len(input.rows) |->
                          norm_model(GetColumn(input, c_model)[r])]))
    IN  SetColumn(d1, IN_ROWS_NORM,
                  AsList([r \in 1..Len(d1.rows) |->
                            norm_rows(GetColumn(d1, c_rows)[r])]))

\* lines 129-147 read the uploaded table alone: each upload with the
\* columns it lacks and, when it lacks none, its frame at line 149
Uploads ==
    {[input |-> f,
      missing |-> missing(f),
      df |-> IF missing(f) = <<>> THEN WithNormColumns(f) ELSE None] :
        f \in InputFrames}

\* lines 129-144 and 228-230: a required column is missing
PriceMissing ==
    /\ pc = "ready"
    /\ \E up \in Uploads :
          /\ up.missing # <<>>
          /\ in_df' = up.input
          /\ error' = [type |-> "ValueError", missing |-> up.missing]
    /\ pc' = "request_failed"
    /\ UNCHANGED <<sheet, pl_df, pl_i, lookup, dupes, df, pos, base_out,
                   rowp_out, total_out, status, out_df, excel_bytes>>

\* lines 129-149
PriceBegin ==
    /\ pc = "ready"
    /\ \E up \in Uploads :
          /\ up.missing = <<>>
          /\ in_df' = up.input
          /\ df' = up.df
    /\ base_out' = <<>>
    /\ rowp_out' = <<>>
    /\ total_out' = <<>>
    /\ status' = <<>>
    /\ pos' = 1
    /\ pc' = "pricing"
    /\ UNCHANGED <<sheet, pl_df, pl_i, lookup, dupes, error, out_df, excel_bytes>>

\* PriceRow storing the keys it did not find (lookup.setdefault)
PriceRow_Remember ==
    /\ pc = "pricing"
    /\ pos <= Len(df.rows)
    /\ LET m == GetColumn(df, IN_MODEL_NORM)[pos]
           r == GetColumn(df, IN_ROWS_NORM)[pos]
           priced == PriceOne(lookup, m, r)
       IN  /\ base_out' = Append(base_out, priced[1])
           /\ rowp_out' = Append(rowp_out, priced[2])
           /\ total_out' = Append(total_out, priced[3])
           /\ status' = Append(status, priced[4])
           /\ lookup' = IF Tup(<<m, r>>) \in DOMAIN lookup THEN lookup
                        ELSE DictSet(lookup, Tup(<<m, r>>), Tup(<<None, None>>))
    /\ pos' = pos + 1
    /\ UNCHANGED <<pc, sheet, pl_df, pl_i, dupes, error, in_df, df,
                   out_df, excel_bytes>>

\* lines 151-167: one iteration of the loop over the input rows
PriceRow ==
    /\ pc = "pricing"
    /\ pos <= Len(df.rows)
    /\ LET m == GetColumn(df, IN_MODEL_NORM)[pos]
           r == GetColumn(df, IN_ROWS_NORM)[pos]
           priced == PriceOne(lookup, m, r)
       IN  /\ base_out' = Append(base_out, priced[1])
           /\ rowp_out' = Append(rowp_out, priced[2])
           /\ total_out' = Append(total_out, priced[3])
           /\ status' = Append(status, priced[4])
    /\ pos' = pos + 1
    /\ UNCHANGED <<pc, sheet, pl_df, pl_i, lookup, dupes, error, in_df, df,
                   out_df, excel_bytes>>

\* lines 169-175 and 232-270: the columns are written, the working columns
\* dropped, the table returned, shown and serialized for download
PriceReturn ==
    /\ pc = "pricing"
    /\ pos > Len(df.rows)
    /\ LET d1 == SetColumn(df, OUT_BASE_COL, base_out)
           d2 == SetColumn(d1, OUT_ROWPRICE_COL, rowp_out)
           d3 == SetColumn(d2, OUT_TOTAL_COL, total_out)
           d4 == SetColumn(d3, OUT_STATUS_COL, status)
           d5 == DropColumns(d4, {IN_MODEL_NORM, IN_ROWS_NORM})
       IN  /\ out_df' = d5
           /\ excel_bytes' = to_excel_bytes(d5, "PRICED")
    /\ df' = None
    /\ base_out' = <<>>
    /\ rowp_out' = <<>>
    /\ total_out' = <<>>
    /\ status' = <<>>
    /\ pos' = 0
    /\ pc' = "done"
    /\ UNCHANGED <<sheet, pl_df, pl_i, lookup, dupes, error, in_df>>

\* lines 72 and 215-217: the page is run again for the next upload; the
\* cached load_pricelist returns the index it built
RerunRequest ==
    /\ pc \in {"done", "request_failed"}
    /\ pc' = "ready"
    /\ error' = None
    /\ in_df' = None
    /\ out_df' = None
    /\ excel_bytes' = None
    /\ UNCHANGED <<sheet, pl_df, pl_i, lookup, dupes, df, pos, base_out,
                   rowp_out, total_out, status>>

\* lines 199-210: after a failed load the page can only be run again from
\* the top
RerunLoad ==
    /\ pc = "load_failed"
    /\ pc' = "start"
    /\ error' = None
    /\ UNCHANGED <<sheet, pl_df, pl_i, lookup, dupes, in_df, df, pos, base_out,
                   rowp_out, total_out, status, out_df, excel_bytes>>

-----------------------------------------------------------------------------
(* The page: one pricelist load, then any number of pricing requests. *)

InitApp ==
    /\ pc = "start"
    /\ sheet = None
    /\ pl_df = None
    /\ pl_i = 0
    /\ lookup = EmptyDict
    /\ dupes = <<>>
    /\ error = None
    /\ in_df = None
    /\ df = None
    /\ pos = 0
    /\ base_out = <<>>
    /\ rowp_out = <<>>
    /\ total_out = <<>>
    /\ status = <<>>
    /\ out_df = None
    /\ excel_bytes = None

Init ==
    /\ InitApp
    /\ nx = None
    /\ n1 = None
    /\ n2 = None

Next ==
    \/ LoadNotFound /\ UNCHANGED normvars
    \/ LoadNoSheet /\ UNCHANGED normvars
    \/ LoadBegin /\ UNCHANGED normvars
    \/ LoadRow /\ UNCHANGED normvars
    \/ LoadReturn /\ UNCHANGED normvars
    \/ UploadUnreadable /\ UNCHANGED normvars
    \/ PriceMissing /\ UNCHANGED normvars
    \/ PriceBegin /\ UNCHANGED normvars
    \/ PriceRow /\ UNCHANGED normvars
    \/ PriceReturn /\ UNCHANGED normvars
    \/ RerunRequest /\ UNCHANGED normvars
    \/ RerunLoad /\ UNCHANGED normvars

Spec == Init /\ [][Next]_vars

-----------------------------------------------------------------------------
(* The normalizer on its own: norm_model applied to a text and then to its *)
(* own result.                                                             *)

NormChars == {"a", "B", "1", "-", " ", "\t"}

NormTexts == {Str(cs) : cs \in Seqs(NormChars, MaxLen)} \cup {None, NaN}

Unset == [unset |-> TRUE]

InitNorm ==
    /\ InitApp
    /\ nx \in NormTexts
    /\ n1 = Unset
    /\ n2 = Unset

NormOnce ==
    /\ n1 = Unset
    /\ n1' = norm_model(nx)
    /\ UNCHANGED <<nx, n2>>

NormTwice ==
    /\ n1 # Unset
    /\ n2 = Unset
    /\ n2' = norm_model(n1)
    /\ UNCHANGED <<nx, n1>>

NextNorm ==
    \/ NormOnce /\ UNCHANGED appvars
    \/ NormTwice /\ UNCHANGED appvars

SpecNorm == InitNorm /\ [][NextNorm]_vars

-----------------------------------------------------------------------------
(* Vocabulary of the properties.  Texts are compared by their words, not   *)
(* by the normalizers: Words splits a text at the separators.              *)

RECURSIVE Words(_, _, _)
Words(cs, seps, word) ==
    IF cs = <<>> THEN (IF word = <<>> THEN <<>> ELSE <<word>>)
    ELSE IF Head(cs) \in seps
         THEN (IF word = <<>> THEN <<>> ELSE <<word>>) \o Words(Tail(cs), seps, <<>>)
    ELSE Words(Tail(cs), seps, Append(word, UpperChar(Head(cs))))

RECURSIVE Flat(_)
Flat(ws) == IF ws = <<>> THEN <<>> ELSE Head(ws) \o Flat(Tail(ws))

\* the two model texts differ only in case, whitespace and '-' for a space
SameModelText(a, b) ==
    Words(a.s, Whitespace \cup {"-"}, <<>>) = Words(b.s, Whitespace \cup {"-"}, <<>>)

\* the two configuration texts differ only in case and whitespace
SameRowsText(a, b) ==
    Flat(Words(a.s, Whitespace, <<>>)) = Flat(Words(b.s, Whitespace, <<>>))

\* the two column names differ only in case and whitespace
SameColumnName(a, b) == Words(a.s, Whitespace, <<>>) = Words(b.s, Whitespace, <<>>)

\* the positions of the columns written like wanted
LikeColumns(frame, wanted) ==
    {i \in 1..Len(frame.columns) : SameColumnName(frame.columns[i], wanted)}

HasColumn(frame, wanted) == LikeColumns(frame, wanted) # {}

\* the position of the first column written like wanted
LikeColumn(frame, wanted) ==
    LET hits == LikeColumns(frame, wanted)
    IN  CHOOSE i \in hits : \A k \in hits : i <= k

\* the keys and price records of the rows of the loaded price sheet, as
\* the sheet's cells give them
Price(cell) == IF cell = NaN THEN None ELSE cell

SheetKeys ==
    LET cm == LikeColumn(pl_df, PL_MODEL_COL)
        cr == LikeColumn(pl_df, PL_ROWS_COL)
    IN  AsList([r \in 1..Len(pl_df.rows) |->
                  Tup(<<norm_model(pl_df.rows[r][cm]), norm_rows(pl_df.rows[r][cr])>>)])

SheetRecords ==
    LET cb == LikeColumn(pl_df, PL_BASE_COL)
        cp == LikeColumn(pl_df, PL_ROWPRICE_COL)
    IN  AsList([r \in 1..Len(pl_df.rows) |->
                  Tup(<<Price(pl_df.rows[r][cb]), Price(pl_df.rows[r][cp])>>)])

\* the last of the rows that has the key
LastRowOf(keys, key, rows) ==
    CHOOSE r \in rows : keys[r] = key /\ \A q \in rows : keys[q] = key => q <= r

\* the normalized keys of the rows of the uploaded table
InputKeys ==
    LET cm == LikeColumn(in_df, IN_MODEL_COL)
        cr == LikeColumn(in_df, IN_ROWS_COL)
    IN  AsList([r \in 1..Len(in_df.rows) |->
                  Tup(<<norm_model(in_df.rows[r][cm]), norm_rows(in_df.rows[r][cr])>>)])

\* the output row r: base price, row price, total price, status
OutRow(r) ==
    <<GetColumn(out_df, OUT_BASE_COL)[r], GetColumn(out_df, OUT_ROWPRICE_COL)[r],
      GetColumn(out_df, OUT_TOTAL_COL)[r], GetColumn(out_df, OUT_STATUS_COL)[r]>>

Priced == IF pc = "done" THEN 1..Len(in_df.rows) ELSE {}

-----------------------------------------------------------------------------
(* Properties. *)

\* C1 as stated: a priced row whose key has no entry is NOT_FOUND with
\* null prices; one whose entry lacks one or more of base and row price is
\* INCOMPLETE_PRICE with the present price filled in and a null total; one
\* whose entry has both prices is OK
C1_AsStated ==
    pc = "done" =>
        LET keys == InputKeys
        IN  \A r \in Priced :
                LET out == OutRow(r)
                IN  IF keys[r] \notin DOMAIN lookup
                    THEN out = <<None, None, None, STATUS_NOT_FOUND>>
                    ELSE LET entry == lookup[keys[r]].t
                         IN  IF entry[1] = None \/ entry[2] = None
                             THEN out = <<entry[1], entry[2], None, STATUS_INCOMPLETE>>
                             ELSE out[4] = STATUS_OK

\* C1 amended: a priced row whose key has no entry, or an entry in which
\* both prices are absent, is NOT_FOUND with null prices; one whose entry
\* lacks exactly one of base and row price is INCOMPLETE_PRICE with the
\* present price filled in, the absent one null and a null total; one whose
\* entry has both prices is OK
C1_Classification ==
    pc = "done" =>
        LET keys == InputKeys
        IN  \A r \in Priced :
                LET out == OutRow(r)
                IN  IF keys[r] \notin DOMAIN lookup
                    THEN out = <<None, None, None, STATUS_NOT_FOUND>>
                    ELSE LET entry == lookup[keys[r]].t
                         IN  IF entry[1] = None /\ entry[2] = None
                             THEN out = <<None, None, None, STATUS_NOT_FOUND>>
                             ELSE IF entry[1] = None \/ entry[2] = None
                             THEN out = <<entry[1], entry[2], None, STATUS_INCOMPLETE>>
                             ELSE out[4] = STATUS_OK

\* a row is priced whose key has an entry without its row price, under an
\* index that also holds an entry without either price
C1_Witness ==
    /\ pc = "done"
    /\ \E key \in DOMAIN lookup : lookup[key] = Tup(<<None, None>>)
    /\ \E r \in Priced :
          /\ InputKeys[r] \in DOMAIN lookup
          /\ lookup[InputKeys[r]] = Tup(<<Num(100), None>>)
          /\ OutRow(r) = <<Num(100), None, None, STATUS_INCOMPLETE>>

\* C2: every output row has one of the three statuses; its total is
\* non-null, and is the sum of its base and row price, exactly when the
\* status is OK, and null when the status is NOT_FOUND or INCOMPLETE_PRICE
C2_StatusAndTotal ==
    \A r \in Priced :
        LET out == OutRow(r)
        IN  /\ out[4] \in {STATUS_OK, STATUS_NOT_FOUND, STATUS_INCOMPLETE}
            /\ (out[4] = STATUS_OK) <=> (out[3] # None)
            /\ out[4] = STATUS_OK =>
                  /\ IsNum(out[1]) /\ IsNum(out[2]) /\ IsNum(out[3])
                  /\ out[3].n = out[1].n + out[2].n

\* a row is priced OK with base 100, row price 50 and total 150
C2_Witness ==
    /\ pc = "done"
    /\ \E r \in Priced : OutRow(r) = <<Num(100), Num(50), Num(150), STATUS_OK>>

\* the rows of the price sheet the index has taken in
Indexed == IF pl_df = None THEN {} ELSE 1..(pl_i - 1)

\* C3: while the pricelist is loaded and when the load is over, the index
\* holds exactly the keys of the sheet rows taken in so far, each with the
\* price record of the last of those rows that has the key
C3_LastWriteWins ==
    pc \in {"loading", "ready"} =>
        LET keys == SheetKeys
            records == SheetRecords
        IN  /\ DOMAIN lookup = {keys[r] : r \in Indexed}
            /\ \A key \in DOMAIN lookup :
                  lookup[key] = records[LastRowOf(keys, key, Indexed)]

\* the load is over, two rows had the same key with different prices and
\* the index holds the second row's
C3_Witness ==
    /\ pc = "ready"
    /\ Len(pl_df.rows) = 2
    /\ SheetKeys[1] = SheetKeys[2]
    /\ SheetRecords[1] # SheetRecords[2]
    /\ lookup[SheetKeys[1]] = SheetRecords[2]

\* the rows among 1..n at which a conflict is due: the key is already in the
\* index and the record held for it, the last earlier row's, differs
ConflictRows(keys, records, n) ==
    {r \in 1..n :
        /\ \E q \in 1..(r - 1) : keys[q] = keys[r]
        /\ records[LastRowOf(keys, keys[r], 1..(r - 1))] # records[r]}

RECURSIVE Ascending(_)
Ascending(S) ==
    IF S = {} THEN <<>>
    ELSE LET least == CHOOSE x \in S : \A y \in S : x <= y
         IN  <<least>> \o Ascending(S \ {least})

Absent ==
    {c \in {IN_MODEL_COL, IN_ROWS_COL} : ~HasColumn(in_df, c)}

\* C5: an upload that lacks a required column fails with an error naming
\* exactly the lacking columns, with no row processed and no output; an
\* upload that has both does not fail with that error
C5_MissingColumns ==
    in_df # None =>
        LET absent == Absent
        IN  IF absent # {}
            THEN /\ pc = "request_failed"
                 /\ error # None
                 /\ error.type = "ValueError"
                 /\ Range(error.missing) = absent
                 /\ Len(error.missing) = Cardinality(absent)
                 /\ pos = 0
                 /\ base_out = <<>> /\ rowp_out = <<>>
                 /\ total_out = <<>> /\ status = <<>>
                 /\ out_df = None
                 /\ excel_bytes = None
            ELSE error = None

\* an upload with rows and without the configuration column has failed
C5_Witness ==
    /\ pc = "request_failed"
    /\ in_df # None
    /\ Len(in_df.rows) > 0
    /\ error.missing = <<IN_ROWS_COL>>

\* C6 as stated: the output has the rows of the input in order, every input
\* column with its values in the original order, and the three price
\* columns and Match Status appended after them
C6_AsStated ==
    pc = "done" =>
        /\ Len(out_df.rows) = Len(in_df.rows)
        /\ out_df.columns =
              in_df.columns \o <<OUT_BASE_COL, OUT_ROWPRICE_COL, OUT_TOTAL_COL,
                                 OUT_STATUS_COL>>
        /\ \A r \in 1..Len(in_df.rows) : \A k \in 1..Len(in_df.columns) :
              out_df.rows[r][k] = in_df.rows[r][k]

\* C7: an input row whose model differs from a sheet row's only in case,
\* whitespace and '-' for a space, and whose configuration differs only in
\* case and whitespace, gets the prices the index holds for that sheet row
C7_Join ==
    pc = "done" =>
        LET im == LikeColumn(in_df, IN_MODEL_COL)
            ir == LikeColumn(in_df, IN_ROWS_COL)
            pm == LikeColumn(pl_df, PL_MODEL_COL)
            pr == LikeColumn(pl_df, PL_ROWS_COL)
        IN  \A r \in Priced : \A q \in 1..Len(pl_df.rows) :
                (/\ SameModelText(in_df.rows[r][im], pl_df.rows[q][pm])
                 /\ SameRowsText(in_df.rows[r][ir], pl_df.rows[q][pr]))
                => LET entry == DictGet(lookup, PLKey(pl_df, q))
                       out == OutRow(r)
                   IN  /\ entry # None
                       /\ out[1] = entry.t[1]
                       /\ out[2] = entry.t[2]
                       /\ (entry.t[1] # None /\ entry.t[2] # None) =>
                             /\ out[4] = STATUS_OK
                             /\ out[3] = Num(entry.t[1].n + entry.t[2].n)

\* the sheet row ("ABC", "2+1R", 100, 50) prices the input row
\* ("abc-", " 2 +1r") at 100, 50, 150, OK
C7_Witness ==
    /\ pc = "done"
    /\ \E q \in 1..Len(pl_df.rows) :
          /\ pl_df.rows[q][LikeColumn(pl_df, PL_MODEL_COL)] = Str(<<"A", "B", "C">>)
          /\ pl_df.rows[q][LikeColumn(pl_df, PL_ROWS_COL)] = Str(<<"2", "+", "1", "R">>)
          /\ SheetRecords[q] = Tup(<<Num(100), Num(50)>>)
    /\ \E r \in Priced :
          /\ in_df.rows[r][LikeColumn(in_df, IN_MODEL_COL)] = Str(<<"a", "b", "c", "-">>)
          /\ in_df.rows[r][LikeColumn(in_df, IN_ROWS_COL)] =
                Str(<<" ", "2", " ", "+", "1", "r">>)
          /\ OutRow(r) = <<Num(100), Num(50), Num(150), STATUS_OK>>

\* C8: norm_model of a normalized model is that model
C8_Idempotent == n2 # Unset => n2 = n1

\* a text with case, '-' and whitespace to fold has been normalized twice
C8_Witness ==
    /\ nx = Str(<<"a", "-", " ", "B">>)
    /\ n1 = Str(<<"A", " ", "B">>)
    /\ n2 = Str(<<"A", " ", "B">>)

\* C9: once the pricelist is loaded no step of a pricing request, failed or
\* not, changes the index
C9_IndexFrozen ==
    [][(pc \in {"ready", "pricing", "done", "request_failed"}) => (lookup' = lookup)]_vars

\* a request has failed for a missing column under a loaded index
C9_Witness ==
    /\ pc = "request_failed"
    /\ error.type = "ValueError"
    /\ DOMAIN lookup # {}

\* the whole sheet has been taken into the index
LoadCompleted == sheet # None /\ pl_df # None /\ pl_i = Len(pl_df.rows) + 1

\* C10: a failed load leaves an error and nothing else; an upload is
\* priced, and an output exists, only after the load completed
C10_NoPricingWithoutIndex ==
    /\ pc = "load_failed" =>
          /\ error # None
          /\ error.type \in {"FileNotFoundError", "ValueError"}
          /\ ~LoadCompleted
          /\ in_df = None /\ df = None /\ out_df = None /\ excel_bytes = None
    /\ (pc \in {"ready", "pricing", "done", "request_failed"}
          \/ in_df # None \/ df # None \/ out_df # None \/ excel_bytes # None)
       => LoadCompleted

\* the load has failed for want of the pricelist file
C10_Witness ==
    /\ pc = "load_failed"
    /\ error = [type |-> "FileNotFoundError"]

====
